---- MODULE Spec2Model ----
(***************************************************************************)
(* Model of audioGuestBook.py: the hook callbacks hand coroutines to the   *)
(* asyncio loop, the loop runs its ready queue in FIFO order, and the      *)
(* handlers off_hook / on_hook spawn the playback, recording and stop      *)
(* tasks.  The audio device (audioInterface.py) is modelled from its       *)
(* interface contract.                                                     *)
(***************************************************************************)
EXTENDS Integers, Sequences, FiniteSets, TLC

(* Number of hook edges the sensor delivers in one run. *)
MaxEdges == 3

EdgeIds == 1..MaxEdges

OffHook == "off"
OnHook == "on"

VARIABLES
    running,    \* the process is alive (asyncio.run(main()) has not returned)
    edges,      \* the edges delivered so far by the hook sensor, in order
    ready,      \* the loop's ready queue: <<"create", e>> or a task <<kind, e>>
    pc,         \* position of every task, keyed by <<kind, e>>
    play,       \* device: state of the play_audio call of pipeline e
    rec,        \* device: state of the recording started for edge e
    file,       \* output_file computed by start_recording of edge e
    beeps,      \* number of play_audio(beep) calls of pipeline e
    greeted,    \* result of the greeting of pipeline e
    hungUp,     \* an on_hook() began while the greeting of e had not finished
    idle        \* no call was active when the handler of edge e began

vars == <<running, edges, ready, pc, play, rec, file, beeps,
          greeted, hungUp, idle>>

Kinds == {"off_hook", "on_hook", "greet_then_beep", "start_recording",
          "stop_playback", "stop_recording"}

Tasks == Kinds \X EdgeIds

NoFile == <<>>

(* datetime.now() as read while the loop runs a step of the given task.   *)
(* The loop runs one step at a time and the clock has microsecond          *)
(* resolution: the readings of two steps differ, so a reading is named by  *)
(* the step that takes it.                                                 *)
datetime_now(task) == <<"clock", task>>

(* t.isoformat() *)
isoformat(t) == <<"iso", t>>

(* The path built without the file suffix. *)
OutputFileNoSuffix(t) == <<"recordings_path", "/", isoformat(t)>>

(* Path(recordings_path) / f"{iso}.wav" *)
OutputFile(t) == <<"recordings_path", "/", isoformat(t), ".wav">>

(* The two callbacks wired the wrong way round. *)
HandlerSwapped(kind) == IF kind = OffHook THEN "on_hook" ELSE "off_hook"

(* setup_hook: when_pressed runs off_hook, when_released runs on_hook. *)
Handler(kind) == IF kind = OffHook THEN "off_hook" ELSE "on_hook"

(* off_hook() creating the playback task only. *)
OffHookTasksPlaybackOnly(e) == << <<"greet_then_beep", e>> >>

(* The tasks off_hook() creates, in creation order. *)
OffHookTasks(e) == << <<"greet_then_beep", e>>, <<"start_recording", e>> >>

(* The tasks on_hook() creates, in creation order. *)
OnHookTasks(e) == << <<"stop_playback", e>>, <<"stop_recording", e>> >>

Children(t) ==
    IF t[1] = "off_hook"
    THEN {OffHookTasks(t[2])[i] : i \in 1..Len(OffHookTasks(t[2]))}
    ELSE {OnHookTasks(t[2])[i] : i \in 1..Len(OnHookTasks(t[2]))}

(* A join that cancels the unfinished children when one child raises. *)
GatherCancelling(p, r, parent) ==
    LET exc == \E k \in Children(parent) : p[k] = "raised"
        all == \A k \in Children(parent) : p[k] = "done"
        q == [t \in Tasks |->
                 IF exc /\ t \in Children(parent) /\ p[t] \notin {"done", "raised"}
                 THEN "cancelled" ELSE p[t]]
    IN  IF p[parent] = "gather" /\ (exc \/ all)
        THEN <<[q EXCEPT ![parent] = IF exc THEN "gather_exc" ELSE "gather_ok"],
               Append(r, parent)>>
        ELSE <<p, r>>

(* asyncio.gather(...) without return_exceptions: the awaiting handler is   *)
(* woken when every child has finished, or as soon as one child raises;    *)
(* the other children are left running.  p, r: pc and ready after the      *)
(* child's step.                                                           *)
Gather(p, r, parent) ==
    LET exc == \E k \in Children(parent) : p[k] = "raised"
        all == \A k \in Children(parent) : p[k] = "done"
    IN  IF p[parent] = "gather" /\ (exc \/ all)
        THEN <<[p EXCEPT ![parent] = IF exc THEN "gather_exc" ELSE "gather_ok"],
               Append(r, parent)>>
        ELSE <<p, r>>

(* Append the sequence of tasks ts to the queue r (loop.call_soon each). *)
CallSoon(r, ts) == r \o ts

Playing(s) == play[s] \in {"playing", "stopping"}
Recording(s) == rec[s] \in {"recording", "stopping"}

(* A playback or a recording of the call begun by edge s holds the device. *)
DeviceActive(s) == Playing(s) \/ Recording(s)

(* The tasks launched by off_hook() of edge s have work left to do. *)
PipelineLive(s) ==
    \/ pc[<<"greet_then_beep", s>>] \in {"new", "greeting", "beep"}
    \/ pc[<<"start_recording", s>>] = "new"

SessionActive(s) == DeviceActive(s) \/ PipelineLive(s)

(* The greeting of call s has been requested or is playing, and has not    *)
(* finished.                                                               *)
GreetingUnfinished(s) ==
    \/ pc[<<"greet_then_beep", s>>] = "new"
    \/ pc[<<"greet_then_beep", s>>] = "greeting" /\ Playing(s)

Init ==
    /\ running = TRUE
    /\ edges = <<>>
    /\ ready = <<>>
    /\ pc = [t \in Tasks |-> "none"]
    /\ play = [e \in EdgeIds |-> "none"]
    /\ rec = [e \in EdgeIds |-> "none"]
    /\ file = [e \in EdgeIds |-> NoFile]
    /\ beeps = [e \in EdgeIds |-> 0]
    /\ greeted = [e \in EdgeIds |-> "none"]
    /\ hungUp = [e \in EdgeIds |-> FALSE]
    /\ idle = [e \in EdgeIds |-> FALSE]

(* The callback running the first step of the handler itself, in the       *)
(* sensor's thread, instead of handing it to the loop.                     *)
HookSyncInline(kind) ==
    /\ running
    /\ Len(edges) < MaxEdges
    /\ LET e == Len(edges) + 1
           ts == IF kind = OffHook THEN OffHookTasks(e) ELSE OnHookTasks(e)
       IN  /\ edges' = Append(edges, kind)
           /\ pc' = [t \in Tasks |->
                        IF t = <<Handler(kind), e>> THEN "gather"
                        ELSE IF \E i \in 1..Len(ts) : ts[i] = t THEN "new"
                        ELSE pc[t]]
           /\ ready' = ready \o ts
    /\ UNCHANGED <<running, play, rec, file, beeps, greeted, hungUp, idle>>

(* The callback putting its work at the front of the loop's queue. *)
HookSyncFront(kind) ==
    /\ running
    /\ Len(edges) < MaxEdges
    /\ edges' = Append(edges, kind)
    /\ ready' = <<<<"create", Len(edges) + 1>>>> \o ready
    /\ UNCHANGED <<running, pc, play, rec, file, beeps, greeted,
                   hungUp, idle>>

(* off_hook_sync / on_hook_sync, run by the sensor's thread: hand           *)
(* asyncio.create_task and the coroutine to the loop, nothing else.        *)
HookSync(kind) ==
    /\ running
    /\ Len(edges) < MaxEdges
    /\ edges' = Append(edges, kind)
    /\ ready' = Append(ready, <<"create", Len(edges) + 1>>)
    /\ UNCHANGED <<running, pc, play, rec, file, beeps, greeted,
                   hungUp, idle>>

off_hook_sync == HookSync(OffHook)
on_hook_sync == HookSync(OnHook)

(* The loop dispatching one handler at a time: the callback of edge e is   *)
(* put back at the end of the queue while the handler of an earlier edge   *)
(* has not returned.                                                       *)
CreateTaskSerial(e) ==
    /\ running
    /\ ready # <<>> /\ Head(ready) = <<"create", e>>
    /\ IF \E d \in 1..(e - 1) : \E k \in {"off_hook", "on_hook"} :
             pc[<<k, d>>] \in {"new", "gather", "gather_ok", "gather_exc"}
       THEN /\ ready' = Append(Tail(ready), Head(ready))
            /\ pc' = pc
       ELSE LET t == <<Handler(edges[e]), e>>
            IN  /\ pc' = [pc EXCEPT ![t] = "new"]
                /\ ready' = Append(Tail(ready), t)
    /\ UNCHANGED <<running, edges, play, rec, file, beeps,
                   greeted, hungUp, idle>>

(* The loop runs the handed-over callback: asyncio.create_task(coro)       *)
(* schedules the first step of the handler.                                *)
CreateTask(e) ==
    /\ running
    /\ ready # <<>> /\ Head(ready) = <<"create", e>>
    /\ LET t == <<Handler(edges[e]), e>>
       IN  /\ pc' = [pc EXCEPT ![t] = "new"]
           /\ ready' = Append(Tail(ready), t)
    /\ UNCHANGED <<running, edges, play, rec, file, beeps,
                   greeted, hungUp, idle>>

(* Mark every task of ts as created in p. *)
Created(p, ts) ==
    [t \in Tasks |-> IF \E i \in 1..Len(ts) : ts[i] = t THEN "new" ELSE p[t]]

ActiveCalls == {s \in EdgeIds : SessionActive(s)}

(* off_hook(), first step: create the playback and the recording task and *)
(* await both.  There is no test of whether a call is already running.    *)
OffHookStep(e) ==
    /\ running
    /\ ready # <<>> /\ Head(ready) = <<"off_hook", e>>
    /\ pc[<<"off_hook", e>>] = "new"
    /\ pc' = [Created(pc, OffHookTasks(e)) EXCEPT ![<<"off_hook", e>>] = "gather"]
    /\ ready' = CallSoon(Tail(ready), OffHookTasks(e))
    /\ idle' = [idle EXCEPT ![e] = (ActiveCalls = {})]
    /\ UNCHANGED <<running, edges, play, rec, file, beeps, greeted, hungUp>>

(* off_hook() resumes from gather: it returns, or re-raises the exception  *)
(* of the child that failed.                                               *)
OffHookReturn(e) ==
    /\ running
    /\ ready # <<>> /\ Head(ready) = <<"off_hook", e>>
    /\ pc[<<"off_hook", e>>] \in {"gather_ok", "gather_exc"}
    /\ pc' = [pc EXCEPT ![<<"off_hook", e>>] =
                 IF pc[<<"off_hook", e>>] = "gather_ok" THEN "done" ELSE "raised"]
    /\ ready' = Tail(ready)
    /\ UNCHANGED <<running, edges, play, rec, file, beeps,
                   greeted, hungUp, idle>>

(* on_hook(), first step: create the two stop tasks and await both. *)
OnHookStep(e) ==
    /\ running
    /\ ready # <<>> /\ Head(ready) = <<"on_hook", e>>
    /\ pc[<<"on_hook", e>>] = "new"
    /\ pc' = [Created(pc, OnHookTasks(e)) EXCEPT ![<<"on_hook", e>>] = "gather"]
    /\ ready' = CallSoon(Tail(ready), OnHookTasks(e))
    /\ hungUp' = [s \in EdgeIds |-> hungUp[s] \/ GreetingUnfinished(s)]
    /\ idle' = [idle EXCEPT ![e] = (ActiveCalls = {})]
    /\ UNCHANGED <<running, edges, play, rec, file, beeps,
                   greeted>>

(* on_hook() resumes from gather and returns. *)
OnHookReturn(e) ==
    /\ running
    /\ ready # <<>> /\ Head(ready) = <<"on_hook", e>>
    /\ pc[<<"on_hook", e>>] \in {"gather_ok", "gather_exc"}
    /\ pc' = [pc EXCEPT ![<<"on_hook", e>>] =
                 IF pc[<<"on_hook", e>>] = "gather_ok" THEN "done" ELSE "raised"]
    /\ ready' = Tail(ready)
    /\ UNCHANGED <<running, edges, play, rec, file, beeps,
                   greeted, hungUp, idle>>

(* greet_then_beep(), first step: play_audio(greeting) is called and the   *)
(* task waits for it.                                                      *)
GreetingStart(e) ==
    /\ running
    /\ ready # <<>> /\ Head(ready) = <<"greet_then_beep", e>>
    /\ pc[<<"greet_then_beep", e>>] = "new"
    /\ pc' = [pc EXCEPT ![<<"greet_then_beep", e>>] = "greeting"]
    /\ play' = [play EXCEPT ![e] = "playing"]
    /\ ready' = Tail(ready)
    /\ UNCHANGED <<running, edges, rec, file, beeps, greeted,
                   hungUp, idle>>

(* The test of was_interrupted without its negation. *)
BeepFollowsInverted(was_interrupted) == was_interrupted

(* if not was_interrupted: play the beep *)
BeepFollows(was_interrupted) == ~was_interrupted

(* greet_then_beep() resumes with the result of the greeting: the beep is  *)
(* played next, or the pipeline ends.                                      *)
GreetingReturned(e) ==
    /\ running
    /\ ready # <<>> /\ Head(ready) = <<"greet_then_beep", e>>
    /\ pc[<<"greet_then_beep", e>>] = "greeting"
    /\ LET was_interrupted == play[e] = "interrupted"
           p == [pc EXCEPT ![<<"greet_then_beep", e>>] = "done"]
           g == Gather(p, Tail(ready), <<"off_hook", e>>)
       IN  /\ greeted' = [greeted EXCEPT ![e] =
                 IF was_interrupted THEN "interrupted" ELSE "completed"]
           /\ IF BeepFollows(was_interrupted)
              THEN /\ pc' = [pc EXCEPT ![<<"greet_then_beep", e>>] = "beep"]
                   /\ play' = [play EXCEPT ![e] = "playing"]
                   /\ beeps' = [beeps EXCEPT ![e] = @ + 1]
                   /\ ready' = Tail(ready)
              ELSE /\ pc' = g[1]
                   /\ ready' = g[2]
                   /\ play' = [play EXCEPT ![e] = "none"]
                   /\ UNCHANGED beeps
    /\ UNCHANGED <<running, edges, rec, file, hungUp, idle>>

(* greet_then_beep() resumes after the beep and ends. *)
BeepReturned(e) ==
    /\ running
    /\ ready # <<>> /\ Head(ready) = <<"greet_then_beep", e>>
    /\ pc[<<"greet_then_beep", e>>] = "beep"
    /\ LET p == [pc EXCEPT ![<<"greet_then_beep", e>>] = "done"]
           g == Gather(p, Tail(ready), <<"off_hook", e>>)
       IN  /\ pc' = g[1]
           /\ ready' = g[2]
    /\ play' = [play EXCEPT ![e] = "none"]
    /\ UNCHANGED <<running, edges, rec, file, beeps, greeted,
                   hungUp, idle>>

(* start_recording(): the file name is built from the clock as read here;  *)
(* the device starts recording, or fails (unwritable path) and the task    *)
(* ends with the exception.                                                *)
StartRecording(e) ==
    /\ running
    /\ ready # <<>> /\ Head(ready) = <<"start_recording", e>>
    /\ pc[<<"start_recording", e>>] = "new"
    /\ file' = [file EXCEPT ![e] = OutputFile(datetime_now(<<"start_recording", e>>))]
    /\ \E ok \in BOOLEAN :
         LET p == [pc EXCEPT ![<<"start_recording", e>>] =
                      IF ok THEN "done" ELSE "raised"]
             g == Gather(p, Tail(ready), <<"off_hook", e>>)
         IN  /\ rec' = [rec EXCEPT ![e] = IF ok THEN "recording" ELSE "failed"]
             /\ pc' = g[1]
             /\ ready' = g[2]
    /\ UNCHANGED <<running, edges, play, beeps, greeted, hungUp, idle>>

(* The tasks of the given kind that wait for the device, oldest first. *)
Waiters(kind) ==
    LET ids == SelectSeq([i \in EdgeIds |-> i],
                         LAMBDA i : pc[<<kind, i>>] = "waiting")
    IN  [i \in 1..Len(ids) |-> <<kind, ids[i]>>]

(* Mark every waiting task of the given kind as woken in p. *)
Woken(p, kind) ==
    [t \in Tasks |-> IF t[1] = kind /\ p[t] = "waiting" THEN "woken" ELSE p[t]]

(* stop_playback(), first step: every playback in progress is told to      *)
(* stop and the task waits for the device; with nothing playing it         *)
(* returns at once.                                                        *)
StopPlayback(e) ==
    /\ running
    /\ ready # <<>> /\ Head(ready) = <<"stop_playback", e>>
    /\ pc[<<"stop_playback", e>>] = "new"
    /\ play' = [s \in EdgeIds |-> IF play[s] = "playing" THEN "stopping" ELSE play[s]]
    /\ IF \E s \in EdgeIds : Playing(s)
       THEN /\ pc' = [pc EXCEPT ![<<"stop_playback", e>>] = "waiting"]
            /\ ready' = Tail(ready)
       ELSE LET p == [pc EXCEPT ![<<"stop_playback", e>>] = "done"]
                g == Gather(p, Tail(ready), <<"on_hook", e>>)
            IN  /\ pc' = g[1]
                /\ ready' = g[2]
    /\ UNCHANGED <<running, edges, rec, file, beeps, greeted,
                   hungUp, idle>>

(* stop_recording(), first step: the recording in progress is told to      *)
(* finalize and the task waits for the device; with nothing recording it   *)
(* returns at once.                                                        *)
StopRecording(e) ==
    /\ running
    /\ ready # <<>> /\ Head(ready) = <<"stop_recording", e>>
    /\ pc[<<"stop_recording", e>>] = "new"
    /\ rec' = [s \in EdgeIds |-> IF rec[s] = "recording" THEN "stopping" ELSE rec[s]]
    /\ IF \E s \in EdgeIds : Recording(s)
       THEN /\ pc' = [pc EXCEPT ![<<"stop_recording", e>>] = "waiting"]
            /\ ready' = Tail(ready)
       ELSE LET p == [pc EXCEPT ![<<"stop_recording", e>>] = "done"]
                g == Gather(p, Tail(ready), <<"on_hook", e>>)
            IN  /\ pc' = g[1]
                /\ ready' = g[2]
    /\ UNCHANGED <<running, edges, play, file, beeps, greeted,
                   hungUp, idle>>

(* A stop task resumes once the device has acknowledged, and returns. *)
StopReturn(kind, e) ==
    /\ running
    /\ ready # <<>> /\ Head(ready) = <<kind, e>>
    /\ pc[<<kind, e>>] = "woken"
    /\ LET p == [pc EXCEPT ![<<kind, e>>] = "done"]
           g == Gather(p, Tail(ready), <<"on_hook", e>>)
       IN  /\ pc' = g[1]
           /\ ready' = g[2]
    /\ UNCHANGED <<running, edges, play, rec, file, beeps,
                   greeted, hungUp, idle>>

StopPlaybackReturn(e) == StopReturn("stop_playback", e)
StopRecordingReturn(e) == StopReturn("stop_recording", e)

(* Device: the clip of pipeline s plays to its end; play_audio returns     *)
(* was_interrupted = False to the waiting pipeline.                        *)
PlaybackFinishes(s) ==
    /\ running
    /\ play[s] = "playing"
    /\ play' = [play EXCEPT ![s] = "finished"]
    /\ ready' = Append(ready, <<"greet_then_beep", s>>)
    /\ UNCHANGED <<running, edges, pc, rec, file, beeps,
                   greeted, hungUp, idle>>

(* Device: the playback of pipeline s has stopped on request; play_audio   *)
(* returns was_interrupted = True, and the stop_playback calls return once *)
(* no playback is left stopping.                                           *)
PlaybackStopped(s) ==
    /\ running
    /\ play[s] = "stopping"
    /\ play' = [play EXCEPT ![s] = "interrupted"]
    /\ IF \E x \in EdgeIds \ {s} : play[x] = "stopping"
       THEN /\ ready' = Append(ready, <<"greet_then_beep", s>>)
            /\ pc' = pc
       ELSE /\ ready' = Append(ready, <<"greet_then_beep", s>>)
                            \o Waiters("stop_playback")
            /\ pc' = Woken(pc, "stop_playback")
    /\ UNCHANGED <<running, edges, rec, file, beeps, greeted,
                   hungUp, idle>>

(* Device: the recording of call s has been finalized and closed on        *)
(* request; the stop_recording calls return once none is left stopping.    *)
RecordingStopped(s) ==
    /\ running
    /\ rec[s] = "stopping"
    /\ rec' = [rec EXCEPT ![s] = "closed"]
    /\ IF \E x \in EdgeIds \ {s} : rec[x] = "stopping"
       THEN UNCHANGED <<ready, pc>>
       ELSE /\ ready' = ready \o Waiters("stop_recording")
            /\ pc' = Woken(pc, "stop_recording")
    /\ UNCHANGED <<running, edges, play, file, beeps, greeted,
                   hungUp, idle>>

(* Device: the recording of call s reaches recording_limit and ends on its *)
(* own.                                                                    *)
RecordingLimit(s) ==
    /\ running
    /\ rec[s] = "recording"
    /\ rec' = [rec EXCEPT ![s] = "closed"]
    /\ UNCHANGED <<running, edges, ready, pc, play, file,
                   beeps, greeted, hungUp, idle>>

(* main(): the operator interrupts the process; main prints and returns.   *)
(* No stop is requested from the audio interface.                          *)
Shutdown ==
    /\ running
    /\ running' = FALSE
    /\ UNCHANGED <<edges, ready, pc, play, rec, file, beeps,
                   greeted, hungUp, idle>>

Next ==
    \/ off_hook_sync
    \/ on_hook_sync
    \/ \E e \in EdgeIds : CreateTask(e)
    \/ \E e \in EdgeIds : OffHookStep(e)
    \/ \E e \in EdgeIds : OffHookReturn(e)
    \/ \E e \in EdgeIds : OnHookStep(e)
    \/ \E e \in EdgeIds : OnHookReturn(e)
    \/ \E e \in EdgeIds : GreetingStart(e)
    \/ \E e \in EdgeIds : GreetingReturned(e)
    \/ \E e \in EdgeIds : BeepReturned(e)
    \/ \E e \in EdgeIds : StartRecording(e)
    \/ \E e \in EdgeIds : StopPlayback(e)
    \/ \E e \in EdgeIds : StopRecording(e)
    \/ \E e \in EdgeIds : StopPlaybackReturn(e)
    \/ \E e \in EdgeIds : StopRecordingReturn(e)
    \/ \E s \in EdgeIds : PlaybackFinishes(s)
    \/ \E s \in EdgeIds : PlaybackStopped(s)
    \/ \E s \in EdgeIds : RecordingStopped(s)

Spec == Init /\ [][Next]_vars

(* One step of the event loop: it runs the callback at the head of its    *)
(* queue.                                                                  *)
LoopStep ==
    \/ \E e \in EdgeIds : CreateTask(e)
    \/ \E e \in EdgeIds : OffHookStep(e)
    \/ \E e \in EdgeIds : OffHookReturn(e)
    \/ \E e \in EdgeIds : OnHookStep(e)
    \/ \E e \in EdgeIds : OnHookReturn(e)
    \/ \E e \in EdgeIds : GreetingStart(e)
    \/ \E e \in EdgeIds : GreetingReturned(e)
    \/ \E e \in EdgeIds : BeepReturned(e)
    \/ \E e \in EdgeIds : StartRecording(e)
    \/ \E e \in EdgeIds : StopPlayback(e)
    \/ \E e \in EdgeIds : StopRecording(e)
    \/ \E e \in EdgeIds : StopPlaybackReturn(e)
    \/ \E e \in EdgeIds : StopRecordingReturn(e)

(* The program on a running event loop: a callback in the queue is         *)
(* eventually run.  Nothing is assumed of the sensor or of the device: a   *)
(* clip or a recording may go on for ever.                                 *)
SpecLoopFair == Spec /\ WF_vars(LoopStep)

(* The same program with the recording limit of the device and the        *)
(* operator's interrupt.                                                   *)
NextFull ==
    \/ Next
    \/ \E s \in EdgeIds : RecordingLimit(s)
    \/ Shutdown

SpecFull == Init /\ [][NextFull]_vars

(* greet_then_beep(), first step, when play_audio raises for the greeting: *)
(* nothing in greet_then_beep() or off_hook() catches the exception, so    *)
(* the task ends with it and gather hands it to off_hook().                *)
GreetingFails(e) ==
    /\ running
    /\ ready # <<>> /\ Head(ready) = <<"greet_then_beep", e>>
    /\ pc[<<"greet_then_beep", e>>] = "new"
    /\ LET p == [pc EXCEPT ![<<"greet_then_beep", e>>] = "raised"]
           g == Gather(p, Tail(ready), <<"off_hook", e>>)
       IN  /\ pc' = g[1]
           /\ ready' = g[2]
    /\ UNCHANGED <<running, edges, play, rec, file, beeps, greeted,
                   hungUp, idle>>

(* A stop task, first step, when the stop call of the audio interface      *)
(* raises: the device is left as it was, the task ends with the exception  *)
(* and gather hands it to on_hook().                                       *)
StopFails(kind, e) ==
    /\ running
    /\ ready # <<>> /\ Head(ready) = <<kind, e>>
    /\ pc[<<kind, e>>] = "new"
    /\ LET p == [pc EXCEPT ![<<kind, e>>] = "raised"]
           g == Gather(p, Tail(ready), <<"on_hook", e>>)
       IN  /\ pc' = g[1]
           /\ ready' = g[2]
    /\ UNCHANGED <<running, edges, play, rec, file, beeps, greeted,
                   hungUp, idle>>

StopPlaybackFails(e) == StopFails("stop_playback", e)
StopRecordingFails(e) == StopFails("stop_recording", e)

(* The same program with an audio interface whose calls may raise. *)
NextFaults ==
    \/ Next
    \/ \E e \in EdgeIds : GreetingFails(e)
    \/ \E e \in EdgeIds : StopPlaybackFails(e)
    \/ \E e \in EdgeIds : StopRecordingFails(e)

SpecFaults == Init /\ [][NextFaults]_vars

TypeOK ==
    /\ running \in BOOLEAN
    /\ Len(edges) <= MaxEdges
    /\ \A i \in 1..Len(ready) : ready[i] \in ({"create"} \cup Kinds) \X EdgeIds
    /\ \A t \in Tasks : pc[t] \in {"none", "new", "gather", "gather_ok", "gather_exc",
                                   "greeting", "beep", "waiting", "woken", "done", "raised"}
    /\ \A e \in EdgeIds : play[e] \in {"none", "playing", "stopping", "finished", "interrupted"}
    /\ \A e \in EdgeIds : rec[e] \in {"none", "recording", "stopping", "closed", "failed"}

(* The handler of edge e has run its first step. *)
Began(e) ==
    \/ pc[<<"off_hook", e>>] \notin {"none", "new"}
    \/ pc[<<"on_hook", e>>] \notin {"none", "new"}

Delivered(e) == e <= Len(edges)

(* C1: at most one call is active at any instant: the playback or the      *)
(* recording launched by one off_hook() is never in progress while those   *)
(* launched by another off_hook() are in progress.                         *)
C1_OneActiveSession ==
    \A s, t \in EdgeIds : s # t => ~(DeviceActive(s) /\ DeviceActive(t))

(* C2: if an on-hook edge is handled before the greeting of a call has     *)
(* finished playing, the beep is never played for that call.               *)
C2_NoBeepAfterHangUp ==
    \A e \in EdgeIds : hungUp[e] => beeps[e] = 0

(* C3: if no on-hook edge is handled before the greeting of a call         *)
(* completes, the beep is played exactly once for that call, and only      *)
(* after the greeting has completed.                                       *)
C3_BeepOnceAfterGreeting ==
    \A e \in EdgeIds :
        /\ beeps[e] <= 1
        /\ beeps[e] = 1 => greeted[e] = "completed"
        /\ (pc[<<"greet_then_beep", e>>] \in {"beep", "done"} /\ ~hungUp[e])
               => (greeted[e] = "completed" /\ beeps[e] = 1)

C3_Witness ==
    \E e \in EdgeIds :
        /\ ~hungUp[e]
        /\ pc[<<"greet_then_beep", e>>] = "done"
        /\ greeted[e] = "completed"
        /\ beeps[e] = 1

(* C4: when on_hook() returns, neither the playback nor the recording of   *)
(* a call begun before it is in progress.                                  *)
C4_OnHookTerminatesSession ==
    [][\A e \in EdgeIds :
          (/\ pc[<<"on_hook", e>>] \in {"gather_ok", "gather_exc"}
           /\ pc'[<<"on_hook", e>>] \in {"done", "raised"})
          => \A s \in 1..(e - 1) : ~DeviceActive(s)']_vars

(* C5: an off-hook edge handled while a call is active, with no on-hook    *)
(* edge since the previous off-hook edge, is a no-op: it creates no        *)
(* playback task, no recording task and no recording file.                 *)
C5_DuplicateOffHookIsNoOp ==
    \A e \in EdgeIds :
        (/\ e > 1 /\ Delivered(e)
         /\ edges[e] = OffHook /\ edges[e - 1] = OffHook
         /\ Began(e) /\ ~idle[e])
        => /\ pc[<<"greet_then_beep", e>>] = "none"
           /\ pc[<<"start_recording", e>>] = "none"
           /\ play[e] = "none" /\ rec[e] = "none"
           /\ file[e] = NoFile

(* C6: an on-hook edge handled while no call is active is a no-op: its     *)
(* stops find nothing to act on, it starts no playback and no recording,   *)
(* and no call is active until a later off-hook edge is handled.           *)
C6_IdleOnHookIsNoOp ==
    \A e \in EdgeIds :
        (Delivered(e) /\ edges[e] = OnHook /\ Began(e) /\ idle[e])
        => /\ pc[<<"stop_playback", e>>] \notin {"waiting", "woken"}
           /\ pc[<<"stop_recording", e>>] \notin {"waiting", "woken"}
           /\ pc[<<"greet_then_beep", e>>] = "none"
           /\ pc[<<"start_recording", e>>] = "none"
           /\ play[e] = "none" /\ rec[e] = "none"
           /\ (\A s \in EdgeIds : s > e => ~Began(s)) => ActiveCalls = {}

C6_Witness ==
    \E e \in EdgeIds :
        /\ Delivered(e) /\ edges[e] = OnHook /\ idle[e]
        /\ pc[<<"on_hook", e>>] = "done"
        /\ pc[<<"stop_playback", e>>] = "done"
        /\ pc[<<"stop_recording", e>>] = "done"

(* C7: the edges off-hook, on-hook, off-hook produce exactly two calls,    *)
(* which never overlap and which record to distinct file names.            *)
C7_BounceGivesTwoSequentialCalls ==
    edges = <<OffHook, OnHook, OffHook>>
    => /\ ~(DeviceActive(1) /\ DeviceActive(3))
       /\ (file[1] # NoFile /\ file[3] # NoFile) => file[1] # file[3]
       /\ pc[<<"greet_then_beep", 2>>] = "none"
       /\ pc[<<"start_recording", 2>>] = "none"
       /\ Began(3) => (/\ pc[<<"greet_then_beep", 1>>] # "none"
                       /\ pc[<<"greet_then_beep", 3>>] # "none")

(* C8: if start_recording fails during a call, the playback pipeline of    *)
(* that call is still run: it is neither left out nor cancelled, and it    *)
(* ends only with the greeting completed or interrupted.                   *)
C8_RecordingFailureKeepsPlayback ==
    \A e \in EdgeIds :
        rec[e] = "failed"
        => /\ pc[<<"greet_then_beep", e>>] \in {"new", "greeting", "beep", "done"}
           /\ pc[<<"greet_then_beep", e>>] = "new"
                => \E i \in 1..Len(ready) : ready[i] = <<"greet_then_beep", e>>
           /\ pc[<<"greet_then_beep", e>>] \in {"greeting", "beep"} => play[e] # "none"
           /\ pc[<<"greet_then_beep", e>>] = "done"
                => greeted[e] \in {"completed", "interrupted"}

C8_Witness ==
    \E e \in EdgeIds :
        /\ rec[e] = "failed"
        /\ pc[<<"off_hook", e>>] = "raised"
        /\ pc[<<"greet_then_beep", e>>] = "done"
        /\ greeted[e] = "completed"
        /\ beeps[e] = 1

(* C9: when the process shuts down while a call is active, the call is     *)
(* stopped as part of the shutdown: no playback and no recording is left   *)
(* in progress when the process has exited.                                *)
C9_ShutdownStopsSession ==
    ~running => \A s \in EdgeIds : ~DeviceActive(s)

TearingDown(e) == pc[<<"on_hook", e>>] \in {"gather", "gather_ok", "gather_exc"}

(* C11: the setup of a new call (its greeting playback, its recording)     *)
(* does not begin until the on_hook() that ends the previous call has      *)
(* returned, with both of its stops returned.                              *)
C11_SetupAfterTeardown ==
    \A e \in EdgeIds : \A s \in EdgeIds :
        (e < s /\ TearingDown(e) /\ ~idle[e])
        => /\ pc[<<"greet_then_beep", s>>] \in {"none", "new"}
           /\ pc[<<"start_recording", s>>] \in {"none", "new"}


(* C12: the hook callbacks only hand work to the loop: the step that       *)
(* delivers an edge appends one callback to the loop's queue and changes   *)
(* nothing else, and every start or stop of playback or recording is made  *)
(* by the loop running the task at the head of its queue.                  *)
C12_CallbacksOnlySubmit ==
    [][/\ edges' # edges
          => /\ ready' = Append(ready, <<"create", Len(edges')>>)
             /\ UNCHANGED <<pc, play, rec, file, beeps, greeted>>
       /\ (\E e \in EdgeIds :
              \/ play'[e] # play[e] /\ play'[e] \in {"playing", "stopping"}
              \/ rec'[e] # rec[e] /\ rec'[e] \in {"recording", "stopping", "failed"})
          => /\ edges' = edges
             /\ ready # <<>>
             /\ Head(ready)[1] \in {"greet_then_beep", "start_recording",
                                    "stop_playback", "stop_recording"}
             /\ \E i \in 0..2 : SubSeq(ready', 1, Len(ready') - i) = Tail(ready)]_vars

C12_Witness ==
    /\ Len(edges) >= 2 /\ edges[2] = OnHook
    /\ \E i \in 1..Len(ready) : ready[i] = <<"create", 2>>
    /\ play[1] = "playing"
    /\ pc[<<"on_hook", 2>>] = "none"


(* Number of entries x in the loop's queue. *)
Queued(x) == Cardinality({i \in 1..Len(ready) : ready[i] = x})

(* C13: every edge delivered is consumed exactly once and in order: it is  *)
(* either still queued once for the loop or has led to one task of the     *)
(* handler of its kind, never both and never the other handler, and a      *)
(* handler begins only after the handlers of all earlier edges have begun. *)
C13_EachEdgeHandledOnceInOrder ==
    \A e \in EdgeIds :
        /\ ~Delivered(e)
             => /\ \A k \in Kinds : pc[<<k, e>>] = "none"
                /\ Queued(<<"create", e>>) = 0
        /\ Delivered(e)
             => LET mine == IF edges[e] = OffHook THEN "off_hook" ELSE "on_hook"
                    other == IF edges[e] = OffHook THEN "on_hook" ELSE "off_hook"
                IN  /\ pc[<<other, e>>] = "none"
                    /\ Queued(<<other, e>>) = 0
                    /\ Queued(<<"create", e>>)
                         + (IF pc[<<mine, e>>] = "none" THEN 0 ELSE 1) = 1
                    /\ pc[<<mine, e>>] = "new" => Queued(<<mine, e>>) = 1
                    /\ Queued(<<mine, e>>) <= 1
        /\ Began(e) => \A d \in 1..(e - 1) : Began(d)

C13_Witness ==
    /\ Len(edges) = 3
    /\ edges[1] = OffHook /\ edges[2] = OnHook /\ edges[3] = OffHook
    /\ Began(1) /\ Began(2) /\ Began(3)


(* C14: within a call the beep never starts before play_audio has returned *)
(* for the greeting, and it starts only if that call returned              *)
(* was_interrupted = False: the step that starts the beep is the one in    *)
(* which the pipeline resumes from a greeting that played to its end, and  *)
(* a pipeline that has not resumed from its greeting has played no beep.   *)
C14_BeepOrderedAfterGreeting ==
    [][\A e \in EdgeIds :
          /\ (\/ beeps'[e] # beeps[e]
              \/ (pc'[<<"greet_then_beep", e>>] = "beep"
                    /\ pc[<<"greet_then_beep", e>>] # "beep"))
               => /\ pc[<<"greet_then_beep", e>>] = "greeting"
                  /\ play[e] = "finished"
                  /\ greeted'[e] = "completed"
                  /\ beeps'[e] = beeps[e] + 1
                  /\ play'[e] = "playing"
          /\ pc[<<"greet_then_beep", e>>] \in {"none", "new", "greeting"}
               => beeps[e] = 0]_vars

C14_Witness ==
    \E e \in EdgeIds :
        /\ pc[<<"greet_then_beep", e>>] = "beep"
        /\ play[e] = "playing"
        /\ beeps[e] = 1
        /\ greeted[e] = "completed"


(* C15: off_hook() launches the pipeline and the recording together and    *)
(* neither waits for the other: once off_hook() has begun, both tasks      *)
(* exist, and a task that has not yet run is queued for the loop (it waits *)
(* on nothing); the recording starts while the pipeline has not returned   *)
(* from its greeting, and the greeting starts while the recording of the   *)
(* call has not ended.                                                     *)
C15_PlaybackAndRecordingIndependent ==
    [][\A e \in EdgeIds :
          /\ pc[<<"off_hook", e>>] \notin {"none", "new"}
               => /\ pc[<<"greet_then_beep", e>>] # "none"
                  /\ pc[<<"start_recording", e>>] # "none"
          /\ \A k \in {"greet_then_beep", "start_recording"} :
               pc[<<k, e>>] = "new" => Queued(<<k, e>>) = 1
          /\ (rec[e] = "none" /\ rec'[e] # "none")
               => /\ pc[<<"greet_then_beep", e>>] \in {"new", "greeting"}
                  /\ greeted[e] = "none" /\ beeps[e] = 0
          /\ (pc[<<"greet_then_beep", e>>] = "new"
                /\ pc'[<<"greet_then_beep", e>>] = "greeting")
               => rec[e] \notin {"stopping", "closed"}]_vars

C15_Witness ==
    \E e \in EdgeIds :
        /\ idle[e]
        /\ pc[<<"off_hook", e>>] = "gather"
        /\ pc[<<"greet_then_beep", e>>] = "greeting" /\ play[e] = "playing"
        /\ rec[e] = "recording"


(* C16: if play_audio raises for the greeting of a call, the recording of  *)
(* that call is still launched and not given up, and the failure is caught *)
(* at the orchestrator: off_hook() does not end with the exception.        *)
C16_PlaybackFailureCaught ==
    \A e \in EdgeIds :
        pc[<<"greet_then_beep", e>>] = "raised"
            => /\ pc[<<"start_recording", e>>] \in {"new", "done", "raised"}
               /\ pc[<<"start_recording", e>>] = "new"
                    => Queued(<<"start_recording", e>>) = 1
               /\ pc[<<"off_hook", e>>] \notin {"gather_exc", "raised"}


(* C17: if stop_playback or stop_recording raises during on_hook(), the    *)
(* failure is caught at the orchestrator (on_hook() does not end with the  *)
(* exception), the other stop is still carried out, and the session is     *)
(* closed: once on_hook() has ended, no playback or recording that was in  *)
(* progress when it began is still in progress.                            *)
C17_StopFailureCaught ==
    [][\A e \in EdgeIds :
          (\E k \in {"stop_playback", "stop_recording"} : pc[<<k, e>>] = "raised")
            => /\ pc[<<"on_hook", e>>] \notin {"gather_exc", "raised"}
               /\ \A k \in {"stop_playback", "stop_recording"} :
                    /\ pc[<<k, e>>] # "none"
                    /\ pc[<<k, e>>] = "new" => Queued(<<k, e>>) = 1
               /\ (pc[<<"on_hook", e>>] \in {"gather_ok", "gather_exc"}
                     /\ pc'[<<"on_hook", e>>] \in {"done", "raised"})
                    => \A s \in EdgeIds : s < e => ~DeviceActive(s)]_vars


(* Both stop calls of on_hook() of edge e have been issued. *)
StopsIssued(e) ==
    /\ pc[<<"stop_playback", e>>] \notin {"none", "new"}
    /\ pc[<<"stop_recording", e>>] \notin {"none", "new"}

(* C18: an on-hook edge is handled without waiting for off_hook() or its   *)
(* tasks: on a running loop, with no assumption that a greeting or a       *)
(* recording ever ends by itself, every on-hook edge delivered leads to    *)
(* both of its stop calls being issued.  An edge delivered stays delivered *)
(* and a stop issued stays issued, so this is stated as: from some point   *)
(* on, every on-hook edge delivered has had both stop calls issued.        *)
C18_OnHookNotBlockedByOffHook ==
    <>[](\A e \in EdgeIds :
            (Delivered(e) /\ edges[e] = OnHook) => StopsIssued(e))

C18_Witness ==
    \E s \in EdgeIds : \E e \in EdgeIds :
        /\ s < e
        /\ pc[<<"off_hook", s>>] = "gather"
        /\ pc[<<"greet_then_beep", s>>] = "greeting"
        /\ play[s] = "stopping" /\ rec[s] = "stopping"
        /\ StopsIssued(e)
        /\ pc[<<"on_hook", e>>] = "gather"

====
